---- MODULE Spec2Model ----
(***************************************************************************)
(* Model of projects/vault-v2/src-tauri/src/event_controller.rs:           *)
(* the EventController (start / stop / drop), its poll loop, the per-device *)
(* readiness resolution task (try_get_device_features and the match on its  *)
(* result), the disconnect-cleanup task and the delayed status tasks.       *)
(*                                                                          *)
(* Time is discrete: one unit is the poll interval (1000 ms).  Advance lets *)
(* one unit pass; a timer that is due fires before the next unit passes.    *)
(* Tasks are scheduled freely: any runnable task may take its next step.    *)
(* A text is a sequence of tokens; `contains` looks for a contiguous run of *)
(* tokens and format! is concatenation.                                     *)
(***************************************************************************)
EXTENDS Integers, Sequences, FiniteSets, TLC

\* ---------------------------------------------------------------- bounds
MaxTasks == 2
MaxCleanups == 2
MaxCalls == 3
MaxDelayed == 2
MaxLockWait == 1

\* ------------------------------------------------------ program constants
FeaturesTimeout == 5
ShortLen == 8
TestDelay == 3
ScanDelay == 1

\* ------------------------------------------------------------- helpers
Max(a, b) == IF a >= b THEN a ELSE b

Min(a, b) == IF a <= b THEN a ELSE b

\* str::contains on the token representation of a text
Contains(text, marker) ==
  \E i \in 1..(Len(text) - Len(marker) + 1) :
    SubSeq(text, i, i + Len(marker) - 1) = marker

\* device identifiers (unique_id): one longer than 8 characters, one shorter
IdLong == <<"3", "4", "3", "4", "3", "7", "3", "0", "3", "1">>

IdShort == <<"k", "k", "1">>

DeviceIds == {IdLong, IdShort}

NoDev == <<>>

\* the snapshots list_connected_devices can return: sequences of distinct ids
Snapshots ==
  {<<>>, <<IdLong>>, <<IdShort>>, <<IdLong, IdShort>>, <<IdShort, IdLong>>}

\* a notification handed to app_handle.emit
Ev(name, dev, text) == [ev |-> name, dev |-> dev, text |-> text]

Status(text) == Ev("status:update", NoDev, text)

TimeoutMsg == <<"Timeout while fetching device features">>

ScanningMsg == <<"Scanning for devices...">>

TestMsg == <<"Test message after 3 seconds">>

GettingMsg == <<"Getting features...">>

DisconnectedMsg == <<"Device disconnected">>

\* &unique_id[len.saturating_sub(8)..]
DeviceShort(id) == SubSeq(id, Max(Len(id) - ShortLen, 0) + 1, Len(id))

DeviceFoundMsg(id) == <<"Device found ">> \o DeviceShort(id)

\* ----------------------------------------------- the external collaborators
\* what queue_handle.get_features() can do: succeed, fail with a text, or
\* never complete
ErrUnknown == <<"Unknown message">>

ErrUnexpected == <<"Unexpected response">>

ErrOther == <<"USB transfer failed">>

ErrClaimed == <<"already claimed">>

FeatureErrors == {ErrUnknown, ErrUnexpected, ErrOther, ErrClaimed}

\* failure texts of a device held by another application: the two worded
\* markers, and a text the transport has already rendered with the lock glyph
ErrInUse == <<"Device Already In Use">>

ErrLocked == <<"LOCK-GLYPH", " KeepKey Device Already In Use">>

ClaimedOutcomes == {ErrClaimed, ErrInUse, ErrLocked}

ReqOutcomes == {<<"ok">>, <<"never">>} \cup FeatureErrors

\* what the blocking fallback probe can return: features, a failure text, or
\* a join error of the blocking task
OobOutcomes == {<<"ok">>, ErrOther, <<"panic">>}

\* what handle.shutdown() can do: return Ok, return Err, or never return
ShutdownOutcomes == {"ok", "err", "never"}

\* DeviceFeatures as far as the controller reads them
FeatureValues ==
  {[label |-> <<"My KeepKey">>, version |-> <<"7.10.0">>],
   [label |-> <<>>, version |-> <<"1.0.3">>]}

\* DeviceStatus as returned by evaluate_device_status
Verdicts ==
  [needs_bootloader_update : BOOLEAN, needs_firmware_update : BOOLEAN,
   needs_initialization : BOOLEAN]

VARIABLES
  is_running,     \* EventController.is_running
  task_handle,    \* EventController.task_handle: 0 is None, else a poll loop
  cancelled,      \* the shared CancellationToken
  dropped,        \* the controller has been dropped
  calls,          \* the calls made on the controller, in order
  loops,          \* the poll-loop tasks spawned by start
  managed,        \* try_state::<DeviceQueueManager>() returns Some
  manager,        \* the DeviceQueueManager map: device id -> worker (0: none)
  lockHolder,     \* the holder of the manager lock: 0 free, t > 0 resolution
                  \* task t, -c cleanup task c
  workers,        \* the workers ever constructed by spawn_worker
  tasks,          \* the readiness resolution tasks
  cleanups,       \* the disconnect-cleanup tasks
  delayed         \* the delayed status tasks

vars ==
  <<is_running, task_handle, cancelled, dropped, calls, loops, managed,
    manager, lockHolder, workers, tasks, cleanups, delayed>>

controllerVars == <<is_running, task_handle, cancelled, dropped, calls>>

registryVars == <<manager, lockHolder, workers>>

Init ==
  /\ is_running = FALSE
  /\ task_handle = 0
  /\ cancelled = FALSE
  /\ dropped = FALSE
  /\ calls = <<>>
  /\ loops = <<>>
  /\ managed \in BOOLEAN
  /\ manager = [d \in DeviceIds |-> 0]
  /\ lockHolder = 0
  /\ workers = <<>>
  /\ tasks = <<>>
  /\ cleanups = <<>>
  /\ delayed = <<>>

\* ------------------------------------------------------ EventController
\* the poll-loop task as spawned: besides its position and its locals, what
\* its last step emitted (log), the first notification it ever emitted
\* (first), the number of scanning statuses it emitted itself (scans), and
\* per device the numbers of device:connected and device:disconnected
\* notifications it emitted (connects, disconnects) and the later of the two
\* kinds (lastNote)
NewLoop == [pc |-> "sleep", last_devices |-> <<>>, tickDue |-> FALSE,
            prev |-> <<>>, seen |-> <<>>, log |-> <<>>, joined |-> FALSE,
            first |-> <<>>, scans |-> 0,
            connects |-> [d \in DeviceIds |-> 0],
            disconnects |-> [d \in DeviceIds |-> 0],
            lastNote |-> [d \in DeviceIds |-> "none"]]

\* the notifications named `name` about device id among those of `log`
Notes(log, name, id) ==
  SelectSeq(log, LAMBDA n : n.ev = name /\ n.dev = id)

\* the later kind of presence notification about device id once `log` has
\* been emitted
LaterNote(old, log, id) ==
  LET ns == SelectSeq(log, LAMBDA n : /\ n.dev = id
                                      /\ n.ev \in {"device:connected",
                                                    "device:disconnected"})
  IN IF ns = <<>> THEN old ELSE ns[Len(ns)].ev

\* the first notification of a loop after it emitted `log`
FirstOf(loop, log) ==
  IF loop.first = <<>> /\ log # <<>> THEN <<log[1]>> ELSE loop.first

\* the scanning statuses among the notifications of `log`
Scans(log) == Cardinality({i \in 1..Len(log) : log[i] = Status(ScanningMsg)})

\* start without the is_running early return
StartUnguarded ==
  /\ ~dropped
  /\ Len(calls) < MaxCalls
  /\ calls' = Append(calls, "start")
  /\ loops' = Append(loops, NewLoop)
  /\ task_handle' = Len(loops) + 1
  /\ is_running' = TRUE
  /\ UNCHANGED <<cancelled, dropped, managed, registryVars, tasks, cleanups,
                 delayed>>

\* EventController::start
Start ==
  /\ ~dropped
  /\ Len(calls) < MaxCalls
  /\ calls' = Append(calls, "start")
  /\ IF is_running
       THEN UNCHANGED <<is_running, task_handle, loops>>
       ELSE /\ loops' = Append(loops, NewLoop)
            /\ task_handle' = Len(loops) + 1
            /\ is_running' = TRUE
  /\ UNCHANGED <<cancelled, dropped, managed, registryVars, tasks, cleanups,
                 delayed>>

\* stop without the is_running early return
StopBodyUnguarded ==
  /\ cancelled' = TRUE
  /\ is_running' = FALSE
  /\ task_handle' = 0
  /\ loops' = IF task_handle = 0 THEN loops
              ELSE [loops EXCEPT ![task_handle].joined = TRUE]

\* the body of EventController::stop
StopBody ==
  IF ~is_running
    THEN UNCHANGED <<is_running, task_handle, cancelled, loops>>
    ELSE /\ cancelled' = TRUE
         /\ is_running' = FALSE
         /\ task_handle' = 0
         \* task_handle.take(): a spawned task awaits the loop for up to 5 s
         \* and only logs the outcome
         /\ loops' = IF task_handle = 0 THEN loops
                     ELSE [loops EXCEPT ![task_handle].joined = TRUE]

\* EventController::stop
Stop ==
  /\ ~dropped
  /\ Len(calls) < MaxCalls
  /\ calls' = Append(calls, "stop")
  /\ StopBody
  /\ UNCHANGED <<dropped, managed, registryVars, tasks, cleanups, delayed>>

\* Drop for EventController
Drop ==
  /\ ~dropped
  /\ Len(calls) < MaxCalls
  /\ calls' = Append(calls, "drop")
  /\ dropped' = TRUE
  /\ StopBody
  /\ UNCHANGED <<managed, registryVars, tasks, cleanups, delayed>>

\* ------------------------------------------------------------ poll loop
InSnapshot(snap, id) == \E i \in 1..Len(snap) : snap[i] = id

\* the first for loop without its membership test
NewDevicesUnfiltered(last, cur) == cur

\* the devices of `cur` that the first for loop treats as newly connected
NewDevices(last, cur) == SelectSeq(cur, LAMBDA d : ~InSnapshot(last, d))

\* the second for loop without its membership test
GoneDevicesUnfiltered(last, cur) == last

\* the devices of `last` that the second for loop treats as disconnected
GoneDevices(last, cur) == SelectSeq(last, LAMBDA d : ~InSnapshot(cur, d))

\* the rescan test without its look at the previous snapshot
RescanWhenEmpty(last, cur) == cur = <<>>

\* current_devices.is_empty() && !last_devices.is_empty()
Rescan(last, cur) == cur = <<>> /\ last # <<>>

\* what the first for loop emits: per new device the "Device found" status,
\* then device:connected
ConnectLog(new) ==
  [i \in 1..(2 * Len(new)) |->
     IF i % 2 = 1 THEN Status(DeviceFoundMsg(new[(i + 1) \div 2]))
     ELSE Ev("device:connected", new[i \div 2], <<>>)]

\* what the second for loop emits: per vanished device the "Device
\* disconnected" status, then device:disconnected
DisconnectLog(gone) ==
  [i \in 1..(2 * Len(gone)) |->
     IF i % 2 = 1 THEN Status(DisconnectedMsg)
     ELSE Ev("device:disconnected", gone[i \div 2], <<>>)]

\* the task spawned by tokio::spawn for a newly connected device
NewTask(id) ==
  [dev |-> id, pc |-> "start", handle |-> 0, req |-> <<>>, wait |-> 0,
   lockWait |-> 0, probeAt |-> <<>>, outcome |-> "pending", error |-> <<>>,
   verdict |-> <<>>, emitted |-> <<>>]

\* the cleanup task spawned for a vanished device
NewCleanup(id) == [dev |-> id, pc |-> "lock", handle |-> 0, sd |-> "none"]

NewDelayed(text, delay) == [status |-> text, left |-> delay, pc |-> "sleep"]

\* the loop task going from the settle sleep to the select without emitting
\* the scanning status
LoopScanSilent(l) ==
  /\ loops[l].pc = "sleep"
  /\ Len(delayed) < MaxDelayed
  /\ loops' = [loops EXCEPT ![l].pc = "select", ![l].tickDue = TRUE,
                            ![l].log = <<>>]
  /\ delayed' = Append(delayed, NewDelayed(TestMsg, TestDelay))
  /\ UNCHANGED <<controllerVars, managed, registryVars, tasks, cleanups>>

\* the start of the spawned loop task: the settle sleep, the initial scanning
\* status, the spawn of the 3 s test-status task; the interval's first tick is
\* due at once
LoopScan(l) ==
  /\ loops[l].pc = "sleep"
  /\ Len(delayed) < MaxDelayed
  /\ loops' = [loops EXCEPT ![l].pc = "select", ![l].tickDue = TRUE,
                            ![l].log = <<Status(ScanningMsg)>>,
                            ![l].first = FirstOf(loops[l], <<Status(ScanningMsg)>>),
                            ![l].scans = @ + Scans(<<Status(ScanningMsg)>>)]
  /\ delayed' = Append(delayed, NewDelayed(TestMsg, TestDelay))
  /\ UNCHANGED <<controllerVars, managed, registryVars, tasks, cleanups>>

\* the interval.tick() branch of the select
Tick(l, cur) ==
  LET last == loops[l].last_devices
      new == NewDevices(last, cur)
      gone == GoneDevices(last, cur)
      rescan == Rescan(last, cur)
      emits == ConnectLog(new) \o DisconnectLog(gone)
  IN /\ loops[l].pc = "select"
     /\ loops[l].tickDue
     /\ Len(tasks) + Len(new) <= MaxTasks
     /\ managed => Len(cleanups) + Len(gone) <= MaxCleanups
     /\ rescan => Len(delayed) < MaxDelayed
     /\ tasks' = tasks \o [i \in 1..Len(new) |-> NewTask(new[i])]
     /\ cleanups' = IF managed
                      THEN cleanups \o [i \in 1..Len(gone) |-> NewCleanup(gone[i])]
                      ELSE cleanups
     /\ delayed' = IF rescan
                     THEN Append(delayed, NewDelayed(ScanningMsg, ScanDelay))
                     ELSE delayed
     /\ loops' = [loops EXCEPT ![l].last_devices = cur, ![l].prev = last,
                               ![l].seen = cur, ![l].tickDue = FALSE,
                               ![l].log = emits,
                               ![l].first = FirstOf(loops[l], emits),
                               ![l].scans = @ + Scans(emits),
                               ![l].connects =
                                  [d \in DeviceIds |->
                                     @[d] + Len(Notes(emits, "device:connected", d))],
                               ![l].disconnects =
                                  [d \in DeviceIds |->
                                     @[d] + Len(Notes(emits, "device:disconnected", d))],
                               ![l].lastNote =
                                  [d \in DeviceIds |-> LaterNote(@[d], emits, d)]]
     /\ UNCHANGED <<controllerVars, managed, registryVars>>

\* the cancellation_token.cancelled() branch of the select
LoopExit(l) ==
  /\ loops[l].pc = "select"
  /\ cancelled
  /\ loops' = [loops EXCEPT ![l].pc = "exited"]
  /\ UNCHANGED <<controllerVars, managed, registryVars, tasks, cleanups,
                 delayed>>

\* a delayed status task wakes up and emits its status
DelayedEmit(k) ==
  /\ delayed[k].pc = "sleep"
  /\ delayed[k].left = 0
  /\ delayed' = [delayed EXCEPT ![k].pc = "done"]
  /\ UNCHANGED <<controllerVars, loops, managed, registryVars, tasks, cleanups>>

\* ------------------------------------------------------ worker registry
NewWorker(id, reg) ==
  [dev |-> id, registered |-> reg, shutdowns |-> 0, state |-> "live"]

\* a mutex that excludes nobody
LockFreeAlways == TRUE

\* lock().await of the manager mutex completes only while nobody holds it
LockFree == lockHolder = 0

\* manager.get(&device.unique_id): 0 is None
Lookup(mgr, id) == mgr[id]

\* spawn_worker followed by manager.insert
InsertNew(mgr, wks, id) ==
  [manager |-> [mgr EXCEPT ![id] = Len(wks) + 1],
   workers |-> Append(wks, NewWorker(id, TRUE)),
   handle |-> Len(wks) + 1]

\* the handle of a worker constructed outside the registry goes out of scope
\* when try_get_device_features returns
DropHandle(wks, h) ==
  IF h # 0 /\ ~wks[h].registered /\ wks[h].state = "live"
    THEN [wks EXCEPT ![h].state = "dropped"]
    ELSE wks

\* ------------------------------------------- readiness resolution task
\* the fallback test matching "Unknown" alone
IsUnrecognizedLoose(e) ==
  \/ Contains(e, <<"Unknown message">>)
  \/ Contains(e, <<"Unexpected response">>)
  \/ Contains(e, <<"USB transfer failed">>)

\* the test that sends try_get_device_features to the fallback probe
IsUnrecognized(e) ==
  \/ Contains(e, <<"Unknown message">>)
  \/ Contains(e, <<"Failure: ", "Unknown message">>)
  \/ Contains(e, <<"Unexpected response">>)

LockGlyph == <<"LOCK-GLYPH">>

\* the test of the Err arm for a device access error
IsClaimed(e) ==
  \/ Contains(e, <<"Device Already In Use">>)
  \/ Contains(e, <<"already claimed">>)
  \/ Contains(e, LockGlyph)

\* the Err arm passing every text through as it is
UserFriendlyRaw(e) == e

\* user_friendly_error
UserFriendly(e) ==
  IF Contains(e, LockGlyph) THEN e
  ELSE LockGlyph \o <<" KeepKey Device Already In Use", "Technical details: ">> \o e

\* the error_payload of the Err arm
AccessError(id, text) ==
  [ev |-> "device:access-error", dev |-> id, text |-> text,
   errorType |-> "DEVICE_CLAIMED"]

\* what the Err arm of the task emits
ErrorLog(id, e) ==
  IF IsClaimed(e) THEN <<AccessError(id, UserFriendly(e))>>
  ELSE <<>>

IsReady(v) ==
  ~v.needs_bootloader_update /\ ~v.needs_firmware_update /\ ~v.needs_initialization

\* the else branch testing the firmware flag before the bootloader flag
StatusMessageFirmwareFirst(v) ==
  IF v.needs_bootloader_update /\ v.needs_firmware_update /\ v.needs_initialization
    THEN <<"Device needs updates">>
  ELSE IF v.needs_firmware_update THEN <<"Firmware update needed">>
  ELSE IF v.needs_bootloader_update THEN <<"Bootloader update needed">>
  ELSE IF v.needs_initialization THEN <<"Device setup needed">>
  ELSE <<"Device ready">>

\* the status text of the else branch
StatusMessage(v) ==
  IF v.needs_bootloader_update /\ v.needs_firmware_update /\ v.needs_initialization
    THEN <<"Device needs updates">>
  ELSE IF v.needs_bootloader_update THEN <<"Bootloader update needed">>
  ELSE IF v.needs_firmware_update THEN <<"Firmware update needed">>
  ELSE IF v.needs_initialization THEN <<"Device setup needed">>
  ELSE <<"Device ready">>

\* a payload with the status hardcoded
VerdictTextHardcoded(v) == <<"ready">>

\* the serialized DeviceStatus of the features-updated payload
VerdictText(v) ==
  (IF v.needs_bootloader_update THEN <<"needs_bootloader_update">> ELSE <<>>)
  \o (IF v.needs_firmware_update THEN <<"needs_firmware_update">> ELSE <<>>)
  \o (IF v.needs_initialization THEN <<"needs_initialization">> ELSE <<>>)

InfoMsg(f) ==
  (IF f.label = <<>> THEN <<"Unlabeled">> ELSE f.label) \o <<" v">> \o f.version

\* the Ok arm emitting device:ready ahead of the "Device ready" status
SuccessLogReadyFirst(id, f, v) ==
  <<Status(InfoMsg(f))>>
  \o (IF IsReady(v)
        THEN <<Ev("device:ready", id, <<"ready">>), Status(<<"Device ready">>)>>
        ELSE <<Status(StatusMessage(v))>>)
  \o <<Ev("device:features-updated", id, VerdictText(v))>>

\* what the Ok arm of the task emits
SuccessLog(id, f, v) ==
  <<Status(InfoMsg(f))>>
  \o (IF IsReady(v)
        THEN <<Status(<<"Device ready">>), Ev("device:ready", id, <<"ready">>)>>
        ELSE <<Status(StatusMessage(v))>>)
  \o <<Ev("device:features-updated", id, VerdictText(v))>>

FailedMsg(e) == <<"Failed to get device features: ">> \o e

FailedOobMsg(e, oob) ==
  <<"Failed to get device features: ">> \o e \o <<" (OOB attempt: ">> \o oob
  \o <<")">>

\* try_get_device_features returns Ok(features): the Ok arm runs to its end
\* with the verdict v of evaluate_device_status; the timeout future is gone
Succeed(t, f, v) ==
  [tasks EXCEPT ![t].pc = "done", ![t].outcome = "ok", ![t].wait = 0,
                ![t].verdict = <<v>>,
                ![t].emitted = @ \o SuccessLog(tasks[t].dev, f, v)]

\* try_get_device_features returns Err(e): the Err arm runs to its end
Fail(t, e) ==
  [tasks EXCEPT ![t].pc = "done", ![t].outcome = "err", ![t].error = e,
                ![t].wait = 0,
                ![t].emitted = @ \o ErrorLog(tasks[t].dev, e)]

\* the spawned task up to its first await: the "Getting features..." status,
\* try_state, and without a manager the worker constructed on the spot
ResolveStart(t, out) ==
  /\ tasks[t].pc = "start"
  /\ IF managed
       THEN /\ tasks' = [tasks EXCEPT ![t].pc = "lock", ![t].req = out,
                                      ![t].emitted = @ \o <<Status(GettingMsg)>>]
            /\ UNCHANGED workers
       ELSE /\ workers' = Append(workers, NewWorker(tasks[t].dev, FALSE))
            /\ tasks' = [tasks EXCEPT ![t].pc = "features", ![t].req = out,
                                      ![t].handle = Len(workers) + 1,
                                      ![t].emitted = @ \o <<Status(GettingMsg)>>]
  /\ UNCHANGED <<controllerVars, loops, managed, manager, lockHolder, cleanups,
                 delayed>>

\* queue_manager.lock().await completes
ResolveLock(t) ==
  /\ tasks[t].pc = "lock"
  /\ LockFree
  /\ lockHolder' = t
  /\ tasks' = [tasks EXCEPT ![t].pc = "lookup"]
  /\ UNCHANGED <<controllerVars, loops, managed, manager, workers, cleanups,
                 delayed>>

\* manager.get: an existing handle is cloned, the guard is dropped and the
\* get_features request is issued
ResolveLookup(t) ==
  LET h == Lookup(manager, tasks[t].dev)
  IN /\ tasks[t].pc = "lookup"
     /\ IF h # 0
          THEN /\ tasks' = [tasks EXCEPT ![t].pc = "features", ![t].handle = h]
               /\ lockHolder' = 0
          ELSE /\ tasks' = [tasks EXCEPT ![t].pc = "insert"]
               /\ UNCHANGED lockHolder
     /\ UNCHANGED <<controllerVars, loops, managed, manager, workers, cleanups,
                    delayed>>

\* the else branch: spawn_worker, manager.insert, the guard is dropped and the
\* get_features request is issued
ResolveInsert(t) ==
  LET r == InsertNew(manager, workers, tasks[t].dev)
  IN /\ tasks[t].pc = "insert"
     /\ manager' = r.manager
     /\ workers' = r.workers
     /\ lockHolder' = 0
     /\ tasks' = [tasks EXCEPT ![t].pc = "features", ![t].handle = r.handle]
     /\ UNCHANGED <<controllerVars, loops, managed, cleanups, delayed>>

\* get_features completes within the timeout
ResolveFeatures(t, f, v) ==
  LET e == tasks[t].req
  IN /\ tasks[t].pc = "features"
     /\ e # <<"never">>
     /\ IF e = <<"ok">>
          THEN /\ tasks' = Succeed(t, f, v)
               /\ workers' = DropHandle(workers, tasks[t].handle)
          ELSE IF IsUnrecognized(e)
            THEN /\ tasks' = [tasks EXCEPT ![t].pc = "oob", ![t].wait = 0,
                                           ![t].probeAt = Append(@, Len(tasks[t].emitted))]
                 /\ UNCHANGED workers
            ELSE /\ tasks' = Fail(t, FailedMsg(e))
                 /\ workers' = DropHandle(workers, tasks[t].handle)
     /\ UNCHANGED <<controllerVars, loops, managed, manager, lockHolder, cleanups,
                    delayed>>

\* the 5 s timeout around get_features elapses
ResolveTimeout(t) ==
  /\ tasks[t].pc = "features"
  /\ tasks[t].wait >= FeaturesTimeout
  /\ tasks' = Fail(t, TimeoutMsg)
  /\ workers' = DropHandle(workers, tasks[t].handle)
  /\ UNCHANGED <<controllerVars, loops, managed, manager, lockHolder, cleanups,
                 delayed>>

\* try_oob_bootloader_detection returns
ResolveOob(t, out, f, v) ==
  /\ tasks[t].pc = "oob"
  /\ tasks' = IF out = <<"ok">> THEN Succeed(t, f, v)
              ELSE IF out = <<"panic">>
                THEN Fail(t, FailedOobMsg(tasks[t].req,
                                          <<"Task execution error: ", "panic">>))
              ELSE Fail(t, FailedOobMsg(tasks[t].req, out))
  /\ workers' = DropHandle(workers, tasks[t].handle)
  /\ UNCHANGED <<controllerVars, loops, managed, manager, lockHolder, cleanups,
                 delayed>>

\* ------------------------------------------------ disconnect cleanup task
\* queue_manager_arc.lock().await and manager.remove: with a handle removed
\* the guard stays alive across handle.shutdown().await
CleanupRemove(c, out) ==
  LET id == cleanups[c].dev
      h == manager[id]
  IN /\ cleanups[c].pc = "lock"
     /\ LockFree
     /\ IF h # 0
          THEN /\ manager' = [manager EXCEPT ![id] = 0]
               /\ workers' = [workers EXCEPT ![h].shutdowns = @ + 1]
               /\ cleanups' = [cleanups EXCEPT ![c].pc = "shutdown",
                                               ![c].handle = h, ![c].sd = out]
               /\ lockHolder' = -c
          ELSE /\ cleanups' = [cleanups EXCEPT ![c].pc = "done"]
               /\ UNCHANGED <<manager, workers, lockHolder>>
     /\ UNCHANGED <<controllerVars, loops, managed, tasks, delayed>>

\* handle.shutdown() returns; its result is discarded, the guard is dropped
CleanupShutdownReturn(c) ==
  /\ cleanups[c].pc = "shutdown"
  /\ cleanups[c].sd # "never"
  /\ workers' = [workers EXCEPT ![cleanups[c].handle].state = "stopped"]
  /\ cleanups' = [cleanups EXCEPT ![c].pc = "done"]
  /\ lockHolder' = 0
  /\ UNCHANGED <<controllerVars, loops, managed, manager, tasks, delayed>>

\* ------------------------------------------------------------------ time
\* one time unit passes: the interval of every waiting loop becomes due, the
\* timers of the waiting tasks run.  A due tick, a due timeout and the
\* synchronous block under the manager lock come first.  lockWait counts the
\* time a task spends queued behind a cleanup task awaiting shutdown.
Advance ==
  /\ \A l \in 1..Len(loops) :
       loops[l].pc = "select" => ~loops[l].tickDue /\ ~cancelled
  /\ \A t \in 1..Len(tasks) :
       /\ tasks[t].pc = "features" => tasks[t].wait < FeaturesTimeout
       /\ tasks[t].pc \notin {"lookup", "insert"}
  /\ loops' = [l \in 1..Len(loops) |->
                 IF loops[l].pc = "select"
                   THEN [loops[l] EXCEPT !.tickDue = TRUE] ELSE loops[l]]
  /\ tasks' = [t \in 1..Len(tasks) |->
                 IF tasks[t].pc = "features"
                   THEN [tasks[t] EXCEPT !.wait = @ + 1]
                 ELSE IF tasks[t].pc = "lock" /\ lockHolder < 0
                   THEN [tasks[t] EXCEPT !.lockWait = Min(@ + 1, MaxLockWait)]
                 ELSE tasks[t]]
  /\ delayed' = [k \in 1..Len(delayed) |->
                   [delayed[k] EXCEPT !.left = Max(@ - 1, 0)]]
  /\ UNCHANGED <<controllerVars, managed, registryVars, cleanups>>

\* --------------------------------------------------------- specifications
\* the inputs of the narrower specifications
PlainFeatures == {[label |-> <<"My KeepKey">>, version |-> <<"7.10.0">>]}

ReadyVerdict ==
  {[needs_bootloader_update |-> FALSE, needs_firmware_update |-> FALSE,
    needs_initialization |-> FALSE]}

PlainOutcomes == {<<"ok">>, <<"never">>}

FailingOutcomes == {ErrUnknown, ErrOther, ErrClaimed, <<"never">>}

\* one device at a time, of two
OneAtATime == {<<>>, <<IdLong>>, <<IdShort>>}

\* one device coming and going
OneDevice == {<<>>, <<IdShort>>}

ControllerNext ==
  \/ Start
  \/ Stop
  \/ Drop

LoopNext(snaps) ==
  \/ \E l \in 1..Len(loops) : LoopScan(l)
  \/ \E l \in 1..Len(loops), cur \in snaps : Tick(l, cur)

ExitNext ==
  \/ \E l \in 1..Len(loops) : LoopExit(l)
  \/ \E k \in 1..Len(delayed) : DelayedEmit(k)

ResolveNext(outs, fs, vs) ==
  \/ \E t \in 1..Len(tasks), out \in outs : ResolveStart(t, out)
  \/ \E t \in 1..Len(tasks) : ResolveLock(t)
  \/ \E t \in 1..Len(tasks) : ResolveLookup(t)
  \/ \E t \in 1..Len(tasks) : ResolveInsert(t)
  \/ \E t \in 1..Len(tasks), f \in fs, v \in vs : ResolveFeatures(t, f, v)
  \/ \E t \in 1..Len(tasks) : ResolveTimeout(t)

OobNext(fs, vs) ==
  \E t \in 1..Len(tasks), out \in OobOutcomes, f \in fs, v \in vs :
    ResolveOob(t, out, f, v)

CleanupNext(outs) ==
  \/ \E c \in 1..Len(cleanups), out \in outs : CleanupRemove(c, out)
  \/ \E c \in 1..Len(cleanups) : CleanupShutdownReturn(c)

\* the whole system
Next ==
  \/ ControllerNext
  \/ LoopNext(Snapshots)
  \/ ExitNext
  \/ ResolveNext(ReqOutcomes, FeatureValues, Verdicts)
  \/ OobNext(FeatureValues, Verdicts)
  \/ CleanupNext(ShutdownOutcomes)
  \/ Advance

Spec == Init /\ [][Next]_vars

\* the state spawn_event_controller leaves: new() followed by start()
InitStarted ==
  /\ is_running = TRUE
  /\ task_handle = 1
  /\ cancelled = FALSE
  /\ dropped = FALSE
  /\ calls = <<"start">>
  /\ loops = <<NewLoop>>
  /\ managed \in BOOLEAN
  /\ manager = [d \in DeviceIds |-> 0]
  /\ lockHolder = 0
  /\ workers = <<>>
  /\ tasks = <<>>
  /\ cleanups = <<>>
  /\ delayed = <<>>

\* the controller and its poll loops; the spawned tasks are not scheduled
NextLifecycle ==
  \/ ControllerNext
  \/ LoopNext(Snapshots)
  \/ ExitNext
  \/ Advance

SpecLifecycle == Init /\ [][NextLifecycle]_vars

\* the controller called in every order, its poll loops watching one device
\* come and go; the spawned tasks are not scheduled
NextRestart ==
  \/ ControllerNext
  \/ LoopNext(OneDevice)
  \/ ExitNext
  \/ Advance

SpecRestart == Init /\ [][NextRestart]_vars

\* a started controller that is never stopped: its poll loop watching two
\* devices and the delayed status tasks; the other spawned tasks are not
\* scheduled
NextPoll ==
  \/ LoopNext(Snapshots)
  \/ \E k \in 1..Len(delayed) : DelayedEmit(k)
  \/ Advance

SpecPoll == InitStarted /\ [][NextPoll]_vars

\* a started controller that is never stopped: the poll loop, the resolution
\* and cleanup tasks around the worker registry
NextRegistry ==
  \/ LoopNext(OneAtATime)
  \/ ResolveNext(PlainOutcomes, PlainFeatures, ReadyVerdict)
  \/ CleanupNext(ShutdownOutcomes)
  \/ Advance

SpecRegistry == InitStarted /\ [][NextRegistry]_vars

\* a started controller that is never stopped, the manager available, one
\* device coming and going, every transport call returning Ok: the
\* get-or-create and remove steps
NextGetOrCreate ==
  \/ LoopNext(OneDevice)
  \/ ResolveNext({<<"ok">>}, PlainFeatures, ReadyVerdict)
  \/ CleanupNext({"ok"})
  \/ Advance

InitManaged == InitStarted /\ managed = TRUE

SpecGetOrCreate == InitManaged /\ [][NextGetOrCreate]_vars

\* a started controller that is never stopped: the resolution tasks with every
\* transport outcome
NextOutcome ==
  \/ LoopNext(OneDevice)
  \/ ResolveNext(ReqOutcomes, PlainFeatures, Verdicts)
  \/ OobNext(PlainFeatures, Verdicts)
  \/ Advance

SpecOutcome == InitStarted /\ [][NextOutcome]_vars

\* as NextOutcome, with one verdict and get-features failing or never
\* completing
NextProbe ==
  \/ LoopNext(OneDevice)
  \/ ResolveNext(FailingOutcomes, PlainFeatures, ReadyVerdict)
  \/ OobNext(PlainFeatures, ReadyVerdict)
  \/ Advance

SpecProbe == InitStarted /\ [][NextProbe]_vars

\* a started controller that is never stopped, the manager available: the
\* resolution tasks obtaining features from get-features, with every verdict
NextVerdict ==
  \/ LoopNext(OneDevice)
  \/ ResolveNext({<<"ok">>}, PlainFeatures, Verdicts)
  \/ Advance

SpecVerdict == InitManaged /\ [][NextVerdict]_vars

\* get-features succeeding, failing with an unrecognized-request text or
\* failing otherwise
MixedOutcomes == {<<"ok">>, ErrUnknown, ErrOther}

\* the verdicts with no flag, one flag, two flags and three flags
SomeVerdicts ==
  {v \in Verdicts : v.needs_bootloader_update = v.needs_firmware_update}

\* a started controller that is never stopped, the manager available: the
\* resolution tasks obtaining features from get-features or from the fallback
\* probe, or obtaining none
NextFeatures ==
  \/ LoopNext(OneDevice)
  \/ ResolveNext(MixedOutcomes, PlainFeatures, SomeVerdicts)
  \/ OobNext(PlainFeatures, SomeVerdicts)
  \/ Advance

SpecFeatures == InitManaged /\ [][NextFeatures]_vars

\* a started controller that is never stopped, the manager available:
\* get-features failing because another application holds the device
NextClaimed ==
  \/ LoopNext(OneDevice)
  \/ ResolveNext(ClaimedOutcomes, PlainFeatures, ReadyVerdict)
  \/ Advance

SpecClaimed == InitManaged /\ [][NextClaimed]_vars

\* ------------------------------------------------------------------ claims
TaskIds == 1..Len(tasks)

CleanupIds == 1..Len(cleanups)

WorkerIds == 1..Len(workers)

LoopIds == 1..Len(loops)

CountEv(log, name, id) ==
  Cardinality({i \in 1..Len(log) : log[i].ev = name /\ log[i].dev = id})

\* the registered workers of device id that no cleanup has removed
Unremoved(id) ==
  {h \in WorkerIds : workers[h].dev = id /\ workers[h].registered
                     /\ workers[h].shutdowns = 0}

\* C1: with the manager available, get-or-create steps for one device id with
\* no removal between them construct one worker and hand out that one handle:
\* at most one registered worker per device has never been removed, and two
\* tasks of one device holding handles of never-removed workers hold the same
\* handle.
C1_SingleWorkerPerDevice ==
  managed =>
    \A id \in DeviceIds :
      /\ Cardinality(Unremoved(id)) <= 1
      /\ \A t1, t2 \in TaskIds :
           (/\ tasks[t1].dev = id /\ tasks[t2].dev = id
            /\ tasks[t1].handle \in Unremoved(id)
            /\ tasks[t2].handle \in Unremoved(id))
           => tasks[t1].handle = tasks[t2].handle

\* two tasks of one device went through get-or-create and share one handle
C1_Witness ==
  /\ managed
  /\ \E t1, t2 \in TaskIds :
       /\ t1 # t2
       /\ tasks[t1].dev = tasks[t2].dev
       /\ tasks[t1].handle # 0
       /\ tasks[t1].handle = tasks[t2].handle
       /\ workers[tasks[t1].handle].shutdowns = 0
       /\ Len(workers) = 1

\* C2: at most one live worker (constructed and not shut down, its handle not
\* dropped) exists per device identifier, and every worker is constructed
\* through the registry.
C2_OneLiveWorker ==
  /\ \A id \in DeviceIds :
       Cardinality({h \in WorkerIds : workers[h].dev = id
                                      /\ workers[h].state = "live"}) <= 1
  /\ \A h \in WorkerIds : workers[h].registered

Absent(id) == \A l \in LoopIds : ~InSnapshot(loops[l].last_devices, id)

\* every task of device id has run to its end
Quiescent(id) ==
  /\ \A t \in TaskIds : tasks[t].dev = id => tasks[t].pc = "done"
  /\ \A c \in CleanupIds : cleanups[c].dev = id => cleanups[c].pc = "done"

\* C3: once a device is gone from the snapshot and its cleanup and resolution
\* tasks have all run, in whatever order, the registry holds no handle for it
\* and every worker constructed for it had its shutdown invoked exactly once.
C3_CleanupOnDisconnect ==
  managed =>
    \A id \in DeviceIds :
      (Absent(id) /\ Quiescent(id)) =>
        /\ manager[id] = 0
        /\ \A h \in WorkerIds : workers[h].dev = id => workers[h].shutdowns = 1

\* C4: the log of a tick holds device:connected once for each identifier of the
\* current snapshot that the previous one lacks, device:disconnected once for
\* each identifier of the previous snapshot that the current one lacks, neither
\* for any other identifier, and last_devices is the current snapshot.
C4_DiffCorrect ==
  \A l \in LoopIds :
    /\ loops[l].last_devices = loops[l].seen
    /\ \A id \in DeviceIds :
         LET inP == InSnapshot(loops[l].prev, id)
             inC == InSnapshot(loops[l].seen, id)
         IN /\ CountEv(loops[l].log, "device:connected", id)
                 = IF inC /\ ~inP THEN 1 ELSE 0
            /\ CountEv(loops[l].log, "device:disconnected", id)
                 = IF inP /\ ~inC THEN 1 ELSE 0

\* a tick that saw one device stay, one go
C4_Witness ==
  \E l \in LoopIds :
    /\ loops[l].prev = <<IdLong, IdShort>>
    /\ loops[l].seen = <<IdShort>>
    /\ CountEv(loops[l].log, "device:disconnected", IdLong) = 1
    /\ CountEv(loops[l].log, "device:connected", IdShort) = 0

\* the lock is held by a cleanup task whose shutdown call never returns
LockHeldForever ==
  \E c \in CleanupIds :
    /\ lockHolder = -c
    /\ cleanups[c].pc = "shutdown"
    /\ cleanups[c].sd = "never"

\* C5: a resolution task whose get-features request never completes ends with
\* "Timeout while fetching device features", spends at most 5 time units
\* waiting, and is never left waiting for good.
C5_TimeoutBounded ==
  \A t \in TaskIds :
    tasks[t].req = <<"never">> =>
      /\ tasks[t].lockWait + tasks[t].wait <= FeaturesTimeout
      /\ tasks[t].pc = "done" =>
           tasks[t].outcome = "err" /\ tasks[t].error = TimeoutMsg
      /\ ~(tasks[t].pc = "lock" /\ LockHeldForever)

\* C6: a task whose get-features request failed with a text that is not an
\* unrecognized-request text, or timed out, has emitted device:access-error for
\* its device as its last notification, with the timeout text on a timeout.
C6_FailureReported ==
  \A t \in TaskIds :
    (/\ tasks[t].pc = "done"
     /\ tasks[t].outcome = "err"
     /\ Len(tasks[t].probeAt) = 0) =>
      LET log == tasks[t].emitted
      IN /\ CountEv(log, "device:access-error", tasks[t].dev) = 1
         /\ log[Len(log)].ev = "device:access-error"
         /\ tasks[t].error = TimeoutMsg => log[Len(log)].text = TimeoutMsg

\* the get-features failure of task t has been received
GotFailure(t) ==
  \/ tasks[t].pc = "oob"
  \/ tasks[t].pc = "done" /\ tasks[t].error # TimeoutMsg
     /\ (tasks[t].outcome = "err" \/ Len(tasks[t].probeAt) > 0)

\* the failure texts carrying none of the unrecognized-request markers
NoMarker(e) == e \in {ErrOther, ErrClaimed}

\* the probe counts C7 states
ProbeCounts(t) ==
  /\ (tasks[t].req = ErrUnknown /\ GotFailure(t)) => Len(tasks[t].probeAt) = 1
  /\ (NoMarker(tasks[t].req) /\ GotFailure(t)) => Len(tasks[t].probeAt) = 0
  /\ (tasks[t].pc = "done" /\ tasks[t].error = TimeoutMsg) =>
       Len(tasks[t].probeAt) = 0

\* C7 as stated: "Unknown message" causes exactly one probe attempt, made
\* before the task has emitted any notification; a failure without a marker
\* and a timeout cause none.
C7_ProbeBeforeAnyNotification ==
  \A t \in TaskIds :
    /\ ProbeCounts(t)
    /\ \A i \in 1..Len(tasks[t].probeAt) : tasks[t].probeAt[i] = 0

\* C7 amended: "Unknown message" causes exactly one probe attempt, made after
\* the task's "Getting features..." status and before any other notification
\* of the task; a failure without a marker and a timeout cause none.
C7_ProbeAfterGettingOnly ==
  \A t \in TaskIds :
    /\ ProbeCounts(t)
    /\ \A i \in 1..Len(tasks[t].probeAt) :
         SubSeq(tasks[t].emitted, 1, tasks[t].probeAt[i]) = <<Status(GettingMsg)>>

\* one task probed after "Unknown message" and finished, another failed
\* without a marker and finished without a probe
C7_Witness ==
  \E t1, t2 \in TaskIds :
    /\ tasks[t1].req = ErrUnknown /\ tasks[t1].pc = "done"
    /\ Len(tasks[t1].probeAt) = 1
    /\ Len(tasks[t1].emitted) > 1
    /\ tasks[t2].req = ErrOther /\ tasks[t2].pc = "done"
    /\ tasks[t2].outcome = "err" /\ Len(tasks[t2].probeAt) = 0

\* C8: a transport call of one device that never returns leaves every due tick
\* of the poll loop able to run and no resolution task of another device
\* waiting behind it.
C8_FailureIsolated ==
  /\ \A l \in LoopIds :
       (loops[l].pc = "select" /\ loops[l].tickDue) =>
         ENABLED Tick(l, loops[l].last_devices)
  /\ \A c \in CleanupIds, t \in TaskIds :
       (/\ cleanups[c].pc = "shutdown"
        /\ cleanups[c].sd = "never"
        /\ tasks[t].dev # cleanups[c].dev) => tasks[t].pc # "lock"

\* C9: no task holds the manager lock while it waits on a device operation.
C9_NoLockAcrossIo ==
  /\ \A c \in CleanupIds : cleanups[c].pc = "shutdown" => lockHolder # -c
  /\ \A t \in TaskIds : tasks[t].pc \in {"features", "oob"} => lockHolder # t

\* C10: a start call on a running controller spawns no poll loop and leaves the
\* task handle, the cancellation signal and is_running as they were.
C10_StartIsNoOp ==
  [][(is_running /\ calls' = Append(calls, "start")) =>
       (/\ loops' = loops
        /\ task_handle' = task_handle
        /\ cancelled' = cancelled
        /\ is_running')]_vars

\* start was called three times in a row and one poll loop exists
C10_Witness ==
  /\ calls = <<"start", "start", "start">>
  /\ Len(loops) = 1
  /\ task_handle = 1
  /\ is_running

\* the status texts that report a verdict
VerdictTexts ==
  {<<"Device needs updates">>, <<"Bootloader update needed">>,
   <<"Firmware update needed">>, <<"Device setup needed">>, <<"Device ready">>}

\* the verdict statuses task t has emitted, in order
VerdictStatuses(t) ==
  SelectSeq(tasks[t].emitted,
            LAMBDA n : n.ev = "status:update" /\ n.text \in VerdictTexts)

Flags(b, f, i) ==
  [needs_bootloader_update |-> b, needs_firmware_update |-> f,
   needs_initialization |-> i]

\* the verdict status text of each of the 8 flag combinations
ExpectedText ==
  [v \in Verdicts |->
     CASE v = Flags(TRUE, TRUE, TRUE) -> <<"Device needs updates">>
       [] v = Flags(TRUE, TRUE, FALSE) -> <<"Bootloader update needed">>
       [] v = Flags(TRUE, FALSE, TRUE) -> <<"Bootloader update needed">>
       [] v = Flags(TRUE, FALSE, FALSE) -> <<"Bootloader update needed">>
       [] v = Flags(FALSE, TRUE, TRUE) -> <<"Firmware update needed">>
       [] v = Flags(FALSE, TRUE, FALSE) -> <<"Firmware update needed">>
       [] v = Flags(FALSE, FALSE, TRUE) -> <<"Device setup needed">>
       [] v = Flags(FALSE, FALSE, FALSE) -> <<"Device ready">>]

\* C11: a resolution task that obtained features has emitted exactly one
\* verdict status, and its text is the one the table gives for the verdict:
\* all three flags "Device needs updates", otherwise the first set flag in the
\* order bootloader, firmware, initialization, and "Device ready" with no flag.
C11_VerdictStatus ==
  \A t \in TaskIds :
    tasks[t].outcome = "ok" =>
      VerdictStatuses(t) = <<Status(ExpectedText[tasks[t].verdict[1]])>>

\* one task ended with firmware and initialization needed, another with
\* bootloader and firmware needed
C11_Witness ==
  \E t1, t2 \in TaskIds :
    /\ tasks[t1].outcome = "ok"
    /\ tasks[t1].verdict = <<Flags(FALSE, TRUE, TRUE)>>
    /\ VerdictStatuses(t1) = <<Status(<<"Firmware update needed">>)>>
    /\ tasks[t2].outcome = "ok"
    /\ tasks[t2].verdict = <<Flags(TRUE, TRUE, FALSE)>>
    /\ VerdictStatuses(t2) = <<Status(<<"Bootloader update needed">>)>>

\* a notification about a device arriving or leaving
DeviceNote(n) ==
  \/ n.ev \in {"device:connected", "device:disconnected"}
  \/ n.ev = "status:update" /\ Len(n.text) > 0 /\ n.text[1] = "Device found "

\* loop l runs a tick in this step
TickStep(l) == loops[l].tickDue /\ ~loops'[l].tickDue

\* C12: once stop has been called on the running monitor of a poll loop, no
\* tick of that loop emits device:connected, device:disconnected or a
\* "Device found" status.
C12_NoTickAfterStop ==
  [][\A l \in LoopIds :
       (loops[l].joined /\ TickStep(l)) =>
         \A i \in 1..Len(loops'[l].log) : ~DeviceNote(loops'[l].log[i])]_vars

\* the failure texts the fallback probe can return
ProbeFailures == {ErrOther, <<"Task execution error: ", "panic">>}

Last(log) == log[Len(log)]

\* C13: a task that made the fallback probe and has run to its end has, when
\* the probe failed, emitted device:access-error as its last notification with
\* a text containing the get-features failure and the probe failure; when the
\* probe succeeded it has emitted the info status, one verdict status and
\* device:features-updated, as after a successful get-features.
C13_ProbeOutcome ==
  \A t \in TaskIds :
    (tasks[t].pc = "done" /\ Len(tasks[t].probeAt) > 0) =>
      LET log == tasks[t].emitted
      IN IF tasks[t].outcome = "err"
           THEN /\ CountEv(log, "device:access-error", tasks[t].dev) = 1
                /\ Last(log).ev = "device:access-error"
                /\ Contains(Last(log).text, tasks[t].req)
                /\ \E o \in ProbeFailures : Contains(Last(log).text, o)
           ELSE /\ Len(log) >= 4
                /\ log[2].ev = "status:update"
                /\ Contains(log[2].text, <<" v">>)
                /\ Len(VerdictStatuses(t)) = 1
                /\ Last(log).ev = "device:features-updated"
                /\ CountEv(log, "device:access-error", tasks[t].dev) = 0

\* the device:features-updated notifications task t has emitted
Updates(t) ==
  SelectSeq(tasks[t].emitted,
            LAMBDA n : n.ev = "device:features-updated" /\ n.dev = tasks[t].dev)

\* the verdict a serialized DeviceStatus carries
FlagsIn(text) ==
  Flags(Contains(text, <<"needs_bootloader_update">>),
        Contains(text, <<"needs_firmware_update">>),
        Contains(text, <<"needs_initialization">>))

\* C14: a task that obtained features, from get-features or from the fallback
\* probe, has emitted device:features-updated exactly once and its payload
\* carries the verdict evaluate_device_status returned; a task that has not
\* obtained features has not emitted it.
C14_FeaturesUpdatedOnce ==
  \A t \in TaskIds :
    IF tasks[t].outcome = "ok"
      THEN /\ Len(Updates(t)) = 1
           /\ FlagsIn(Updates(t)[1].text) = tasks[t].verdict[1]
      ELSE Updates(t) = <<>>

\* one task obtained features from the probe with a verdict that is not
\* ready, another failed and ended without features
C14_Witness ==
  \E t1, t2 \in TaskIds :
    /\ tasks[t1].outcome = "ok"
    /\ Len(tasks[t1].probeAt) = 1
    /\ tasks[t1].verdict = <<Flags(TRUE, TRUE, FALSE)>>
    /\ Len(Updates(t1)) = 1
    /\ tasks[t2].outcome = "err"
    /\ tasks[t2].pc = "done"
    /\ Updates(t2) = <<>>

\* C15: a task has emitted device:ready once when it obtained features and
\* the verdict has all three flags false, and never otherwise; the task that
\* emitted it has emitted, in this order, "Getting features...", the
\* label/version status, "Device ready", device:ready, device:features-updated.
C15_ReadyOrder ==
  \A t \in TaskIds :
    LET log == tasks[t].emitted
        n == CountEv(log, "device:ready", tasks[t].dev)
    IN /\ n = IF /\ tasks[t].outcome = "ok"
                  /\ tasks[t].verdict = <<Flags(FALSE, FALSE, FALSE)>>
                 THEN 1 ELSE 0
       /\ n = 1 =>
            /\ Len(log) = 5
            /\ log[1] = Status(GettingMsg)
            /\ log[2].ev = "status:update" /\ Contains(log[2].text, <<" v">>)
            /\ log[3] = Status(<<"Device ready">>)
            /\ log[4].ev = "device:ready"
            /\ log[5].ev = "device:features-updated"

\* one task ended ready and emitted device:ready, another obtained features
\* with a flag set and emitted none
C15_Witness ==
  \E t1, t2 \in TaskIds :
    /\ tasks[t1].outcome = "ok"
    /\ tasks[t1].verdict = <<Flags(FALSE, FALSE, FALSE)>>
    /\ CountEv(tasks[t1].emitted, "device:ready", tasks[t1].dev) = 1
    /\ tasks[t2].outcome = "ok"
    /\ tasks[t2].verdict = <<Flags(FALSE, FALSE, TRUE)>>
    /\ CountEv(tasks[t2].emitted, "device:ready", tasks[t2].dev) = 0

\* C16: a cleanup task awaiting the shutdown of the removed handle always has
\* a step that ends the wait and releases the registry, whatever the shutdown
\* call does, and no worker has its shutdown invoked a second time.
C16_CleanupTerminates ==
  /\ \A c \in CleanupIds :
       cleanups[c].pc = "shutdown" => ENABLED CleanupShutdownReturn(c)
  /\ \A h \in WorkerIds : workers[h].shutdowns <= 1

\* the text carries a device-already-in-use marker
HasClaimMarker(e) ==
  \/ Contains(e, <<"Device Already In Use">>)
  \/ Contains(e, <<"already claimed">>)
  \/ Contains(e, <<"LOCK-GLYPH">>)

\* the multi-line explanation built around the failure text e
Explanation(e) ==
  <<"LOCK-GLYPH", " KeepKey Device Already In Use", "Technical details: ">> \o e

\* task t failed with a marked text and its last notification is a
\* device:access-error of type DEVICE_CLAIMED
ClaimedReported(t) ==
  /\ tasks[t].emitted # <<>>
  /\ Last(tasks[t].emitted).ev = "device:access-error"
  /\ Last(tasks[t].emitted).dev = tasks[t].dev
  /\ Last(tasks[t].emitted).errorType = "DEVICE_CLAIMED"

StopCall == calls' \in {Append(calls, "stop"), Append(calls, "drop")}

\* C18: the cancellation signal never goes back to not-cancelled, so it is set
\* at most once; it changes only in a stop (called directly or by drop) of a
\* running monitor; a stop on a monitor that is not running leaves is_running,
\* the task handle and the signal as they were.
C18_CancelOnce ==
  [][/\ cancelled => cancelled'
     /\ cancelled' # cancelled => (is_running /\ StopCall)
     /\ (~is_running /\ StopCall) =>
          (/\ is_running' = is_running
           /\ task_handle' = task_handle
           /\ cancelled' = cancelled)]_vars

\* a running monitor was stopped and then stopped again
C18_Witness ==
  /\ calls = <<"start", "stop", "stop">>
  /\ cancelled
  /\ ~is_running
  /\ task_handle = 0

\* the last 8 characters of an identifier, or all of a shorter one
Suffix(id) == IF Len(id) <= 8 THEN id ELSE SubSeq(id, Len(id) - 7, Len(id))

\* C19: for each device the last tick saw for the first time, the log of the
\* tick holds device:connected and, after it, the status "Device found" with
\* the suffix of the identifier.
C19_ConnectedThenFound ==
  \A l \in LoopIds, id \in DeviceIds :
    (InSnapshot(loops[l].seen, id) /\ ~InSnapshot(loops[l].prev, id)) =>
      \E i, j \in 1..Len(loops[l].log) :
        /\ i < j
        /\ loops[l].log[i] = Ev("device:connected", id, <<>>)
        /\ loops[l].log[j] = Status(<<"Device found ">> \o Suffix(id))

\* C20: a poll loop emits nothing during the settle delay; once past it, the
\* first notification it ever emitted is the status "Scanning for devices..."
\* and it has emitted that status exactly once itself (the delayed rescan
\* status after a disconnect comes from a task of its own); every tick of the
\* loop runs after that emission.
C20_ScanFirst ==
  [][\A l \in 1..Len(loops') :
       /\ loops'[l].pc = "sleep" =>
            (loops'[l].first = <<>> /\ loops'[l].scans = 0)
       /\ loops'[l].pc # "sleep" =>
            (loops'[l].first = <<Status(ScanningMsg)>> /\ loops'[l].scans = 1)
       /\ (l \in LoopIds /\ TickStep(l)) =>
            (loops[l].first = <<Status(ScanningMsg)>> /\ loops[l].scans = 1)]_vars

\* a loop emitted the scanning status and afterwards a tick of it emitted
\* device:connected; a second loop is still in its settle delay
C20_Witness ==
  \E l1, l2 \in LoopIds :
    /\ loops[l1].first = <<Status(ScanningMsg)>>
    /\ loops[l1].scans = 1
    /\ CountEv(loops[l1].log, "device:connected", IdShort) = 1
    /\ loops[l2].pc = "sleep"
    /\ loops[l2].first = <<>>

\* the delayed tasks that emit, or have emitted, the scanning status
Rescans == {k \in 1..Len(delayed) : delayed[k].status = ScanningMsg}

\* C21: a tick spawns one delayed "Scanning for devices..." task when its
\* snapshot is empty and the previous one was not, and none otherwise; when it
\* has spawned one, device:disconnected has been emitted for every device of
\* the previous snapshot while the delayed task still sleeps its full delay.
C21_RescanOnEmpty ==
  [][\A l \in LoopIds :
       TickStep(l) =>
         LET emptied == loops'[l].seen = <<>> /\ loops'[l].prev # <<>>
         IN /\ Len(delayed') = Len(delayed) + (IF emptied THEN 1 ELSE 0)
            /\ SubSeq(delayed', 1, Len(delayed)) = delayed
            /\ emptied =>
                 /\ delayed'[Len(delayed')]
                      = [status |-> ScanningMsg, left |-> ScanDelay, pc |-> "sleep"]
                 /\ \A id \in DeviceIds :
                      InSnapshot(loops'[l].prev, id) =>
                        CountEv(loops'[l].log, "device:disconnected", id) = 1]_vars

\* two devices vanished in one tick, which spawned one delayed scanning task
C21_Witness ==
  \E l \in LoopIds :
    /\ loops[l].prev = <<IdLong, IdShort>>
    /\ loops[l].seen = <<>>
    /\ Cardinality(Rescans) = 1
    /\ \A k \in Rescans : delayed[k].pc = "sleep"

\* task t is the n-th resolution task of its device, cleanup c the n-th
\* cleanup task of its device: the n-th disconnect of a device follows its
\* n-th connect and precedes its next one
TaskRank(t) == Cardinality({u \in 1..t : tasks[u].dev = tasks[t].dev})

CleanupRank(c) == Cardinality({d \in 1..c : cleanups[d].dev = cleanups[c].dev})

\* cleanup c belongs to a disconnect that came before the connect of task t
EarlierDisconnect(c, t) ==
  /\ cleanups[c].dev = tasks[t].dev
  /\ CleanupRank(c) < TaskRank(t)

\* C22: the handle a resolution task obtained for a device that is in the
\* latest snapshot has not been removed from the registry and shut down by a
\* cleanup task of a disconnect that came before that task's connect.
C22_NoStaleCleanup ==
  \A t \in TaskIds, c \in CleanupIds :
    (/\ tasks[t].handle # 0
     /\ \E l \in LoopIds : InSnapshot(loops[l].last_devices, tasks[t].dev)
     /\ EarlierDisconnect(c, t))
    => cleanups[c].handle # tasks[t].handle

\* C25: in every state and for every poll loop and device, the number of
\* device:connected notifications of the loop minus the number of its
\* device:disconnected notifications is 1 when the device is in last_devices
\* and 0 otherwise; a tick emits at most one of the two about a device; the
\* later of the two is device:connected when the device is in last_devices
\* and device:disconnected when it is not and one was ever emitted.  So the
\* two alternate, starting with device:connected.
C25_Alternate ==
  \A l \in LoopIds, id \in DeviceIds :
    LET present == InSnapshot(loops[l].last_devices, id)
    IN /\ loops[l].connects[id] - loops[l].disconnects[id]
            = IF present THEN 1 ELSE 0
       /\ CountEv(loops[l].log, "device:connected", id)
            + CountEv(loops[l].log, "device:disconnected", id) <= 1
       /\ loops[l].lastNote[id]
            = IF present THEN "device:connected"
              ELSE IF loops[l].connects[id] = 0 THEN "none"
              ELSE "device:disconnected"

\* a device came, went and came back while another one stayed away
C25_Witness ==
  \E l \in LoopIds :
    /\ loops[l].connects[IdShort] = 2
    /\ loops[l].disconnects[IdShort] = 1
    /\ loops[l].lastNote[IdShort] = "device:connected"
    /\ loops[l].connects[IdLong] = 0

\* task t runs its Ok arm in this step, emitting device:features-updated and,
\* for a ready verdict, device:ready
ReportStep(t) == tasks[t].outcome = "pending" /\ tasks'[t].outcome = "ok"

\* C23: when a task emits device:ready or device:features-updated for its
\* device, the later of the device:connected and device:disconnected
\* notifications about that device is not device:disconnected.
C23_NoReportAfterDisconnect ==
  [][\A t \in TaskIds :
       ReportStep(t) =>
         \A l \in LoopIds :
           loops[l].lastNote[tasks[t].dev] # "device:disconnected"]_vars

\* C24: a poll loop leaves its select loop only after stop has been called on
\* the monitor it was started for; a loop started after an earlier stop does
\* not exit on its own.
C24_ExitOnlyWhenStopped ==
  \A l \in LoopIds : loops[l].pc = "exited" => loops[l].joined

====
